---- MODULE Spec2Model ----
(***************************************************************************)
(* Model of package cube (emitter.go): Run's periodic export loop, the     *)
(* one-shot ExportVariables / ExportVariablesWithTimestamp, the expvar     *)
(* registry they scan, the ticker channel that drives the loop and the     *)
(* HTTP POSTs they issue.                                                  *)
(*                                                                         *)
(* Time is counted in whole seconds since 00:00:00 UTC of day 0.           *)
(***************************************************************************)
EXTENDS Integers, Sequences, FiniteSets, TLC

VARIABLES
    flagCollectorHost,   \* emitter.go:40
    flagCollectorPort,   \* emitter.go:41
    flagExportInterval,  \* emitter.go:42, the flag's text as a sequence of characters
    flagExportToCube,    \* emitter.go:43
    registry,            \* expvar's process-wide registry: name -> variable
    clock,               \* wall-clock time, seconds
    alive,               \* FALSE once log.Fatalf has exited the process
    runPc,               \* where Run is: idle (not called), returned, fatal, waiting, exporting
    collectionType,      \* Run's argument
    putUrl,              \* Run's local putUrl
    interval,            \* Run's local interval, seconds
    ticker,              \* the runtime timer behind time.Tick(interval)
    tickChan,            \* the channel time.Tick returned (capacity 1)
    now,                 \* Run's loop variable: the value read from tickChan
    runReq,              \* the request built by the export Run called last
    runPost,             \* what that export's http.Post returned: (response, err)
    runErr,              \* the error that export returned to Run
    runLogged,           \* the log lines Run's latest step wrote
    runStartedAt,        \* wall-clock time at which Run's current/last cycle started
    oncePc,              \* the ad hoc caller of ExportVariables*: idle, posting
    onceCalls,           \* number of ad hoc calls made
    onceReq,             \* the request built by the latest ad hoc call
    oncePost,            \* what the latest ad hoc call's http.Post returned
    onceRet,             \* what the latest ad hoc call returned
    onceErrs,            \* number of ad hoc calls that returned an error
    onceLogged,          \* the log lines the latest ad hoc call wrote
    inflight,            \* http.Post calls that have not returned yet
    posts,               \* number of http.Post calls issued, by caller
    consumed,            \* ticks Run's loop has read from tickChan
    fires,               \* times at which the ticker has fired
    openBodies,          \* response bodies received and not closed yet
    run2Pc,              \* a second call of Run: idle (not called), returned, fatal, panicked
    run2Logged,          \* the log lines the second call wrote
    serIn,               \* the serializer on its own: collection type, timestamp, snapshot
    serOut               \* the serializer on its own: the request it built, in characters

flags == <<flagCollectorHost, flagCollectorPort, flagExportInterval, flagExportToCube>>
runLocals == <<collectionType, putUrl, interval>>
onceVars == <<oncePc, onceCalls, onceReq, oncePost, onceRet, onceErrs, onceLogged>>

others == <<run2Pc, run2Logged, serIn, serOut>>

vars == <<flags, registry, clock, alive, runPc, runLocals, ticker, tickChan, now, runReq,
          runPost, runErr, runLogged, runStartedAt, onceVars, inflight, posts, consumed, fires,
          openBodies, others>>

-----------------------------------------------------------------------------
(* Bounds of the model *)

MaxTime == 3
MaxOnce == 2

-----------------------------------------------------------------------------
(* Inputs *)

Hosts == {"localhost"}
Ports == {1080}
IntervalFlags == { <<"1", "s">>, <<"2", "s">>, <<"0", "s">>, <<"a", "b", "c">> }
CollectionTypes == {"myevents"}
OnceUrls == {"http://cube:1080/1.0/event/put"}
\* connection-level failures of http.Post
PostErrors == {"connection refused", "i/o timeout"}
\* status codes of a response that was received
PostStatuses == {200, 404, 500}
\* values the host process gives its own counter
HostValues == {0, 1}
\* expvar names of a snapshot in the order expvar.Do visits them, as characters:
\* a"b, c\,d and hits
SnapshotNames == << <<"a", "\"", "b">>, <<"c", "\\", ",", "d">>, <<"hits">> >>
\* what Var.String() returns, as characters: 1, "x,y", "p\"q" and {"k":[1,2]}
SnapshotValues ==
    { <<"1">>,
      <<"\"", "x", ",", "y", "\"">>,
      <<"\"", "p", "\\", "\"", "q", "\"">>,
      <<"{", "\"", "k", "\"", ":", "[", "1", ",", "2", "]", "}">> }
\* values flag.Set can give the flags while the process runs
FlagHosts == Hosts \cup {"cube.example.org"}
FlagPorts == Ports \cup {8080}

-----------------------------------------------------------------------------
(* time.ParseDuration, on the alphabet of sign, digits and the units s, m, h *)

Digits == {"0", "1", "2", "3", "4", "5", "6", "7", "8", "9"}
Units == {"s", "m", "h"}

DigitValue(c) ==
    CASE c = "0" -> 0 [] c = "1" -> 1 [] c = "2" -> 2 [] c = "3" -> 3 [] c = "4" -> 4
      [] c = "5" -> 5 [] c = "6" -> 6 [] c = "7" -> 7 [] c = "8" -> 8 [] c = "9" -> 9

UnitSeconds(u) == CASE u = "s" -> 1 [] u = "m" -> 60 [] u = "h" -> 3600

RECURSIVE LeadingInt(_, _)
LeadingInt(s, acc) ==
    IF s = <<>> \/ Head(s) \notin Digits
    THEN [v |-> acc, rest |-> s]
    ELSE LeadingInt(Tail(s), acc * 10 + DigitValue(Head(s)))

RECURSIVE ParseGroups(_, _)
ParseGroups(s, d) ==
    IF s = <<>> THEN [d |-> d, err |-> ""]
    ELSE IF Head(s) \notin Digits THEN [d |-> 0, err |-> "time: invalid duration"]
    ELSE LET n == LeadingInt(s, 0) IN
         IF n.rest = <<>> THEN [d |-> 0, err |-> "time: missing unit in duration"]
         ELSE IF Head(n.rest) \notin Units THEN [d |-> 0, err |-> "time: unknown unit in duration"]
         ELSE ParseGroups(Tail(n.rest), d + n.v * UnitSeconds(Head(n.rest)))

ParseDuration(s) ==
    LET signed == s # <<>> /\ Head(s) \in {"-", "+"}
        neg    == s # <<>> /\ Head(s) = "-"
        body   == IF signed THEN Tail(s) ELSE s
    IN  IF body = <<"0">> THEN [d |-> 0, err |-> ""]
        ELSE IF body = <<>> THEN [d |-> 0, err |-> "time: invalid duration"]
        ELSE LET r == ParseGroups(body, 0) IN
             IF r.err # "" THEN r
             ELSE [d |-> IF neg THEN 0 - r.d ELSE r.d, err |-> ""]

RECURSIVE Text(_)
Text(s) == IF s = <<>> THEN "" ELSE Head(s) \o Text(Tail(s))

-----------------------------------------------------------------------------
(* Formatting *)

Pad2(n) == IF n < 10 THEN "0" \o ToString(n) ELSE ToString(n)

Clock24(t) == Pad2((t \div 3600) % 24) \o ":" \o Pad2((t \div 60) % 60) \o ":" \o Pad2(t % 60)

\* timestamp.Format(time.ANSIC), "Mon Jan _2 15:04:05 2006", for a time of day 0
FormatANSIC(t) == "Thu Jan  1 " \o Clock24(t) \o " 1970"

\* a time.Time printed with %v
TimeString(t) == "1970-01-01 " \o Clock24(t) \o " +0000 UTC"

PutUrl(host, port) == "http://" \o host \o ":" \o ToString(port) \o "/1.0/event/put"

-----------------------------------------------------------------------------
(* The expvar registry *)

\* the names of the model in the order expvar.Do visits them (sorted by byte)
KeyOrder == <<"CubeExports", "cmdline", "hits", "memstats">>

IntVar(n) == [kind |-> "Int", v |-> n, s |-> ""]
FuncVar(text) == [kind |-> "Func", v |-> 0, s |-> text]

\* Var.String()
String(var) == IF var.kind = "Int" THEN ToString(var.v) ELSE var.s

Do(reg) == SelectSeq(KeyOrder, LAMBDA k : k \in DOMAIN reg)

\* fmt.Sprintf("%q: %s", entry.Key, entry.Value) for names without special characters
Entry(key, value) == "\"" \o key \o "\": " \o value

Variables(reg) == [i \in 1..Len(Do(reg)) |-> Entry(Do(reg)[i], String(reg[Do(reg)[i]]))]

RECURSIVE Join(_, _)
Join(strs, sep) ==
    IF strs = <<>> THEN ""
    ELSE IF Len(strs) = 1 THEN strs[1]
    ELSE strs[1] \o sep \o Join(Tail(strs), sep)

Request(ct, ts, variables) ==
    "[\n\t\t{\n\t\t\t\"type\": \"" \o ct
      \o "\",\n\t\t\t\"time\": \"" \o FormatANSIC(ts)
      \o "\",\n\t\t\t\"data\": { " \o Join(variables, ",")
      \o " }\n\t\t}\n\t\t]"

\* The same serialization over text held as a sequence of pieces: a structural
\* character, a run of white space of the template, or a run of other characters.

RECURSIVE Escaped(_)
Escaped(s) ==
    IF s = <<>> THEN <<>>
    ELSE (IF Head(s) \in {"\"", "\\"} THEN <<"\\", Head(s)>> ELSE <<Head(s)>>)
           \o Escaped(Tail(s))

\* variant: the name is put between quotes as it is
Quote_Raw(s) == <<"\"">> \o s \o <<"\"">>

\* the verb %q of line 99: strconv.Quote
Quote(s) == <<"\"">> \o Escaped(s) \o <<"\"">>

\* fmt.Sprintf("%q: %s", entry.Key, entry.Value), line 99
EntryChars(key, value) == Quote(key) \o <<":", " ">> \o value

\* the slice variables after expvar.Do, lines 97-100
VariablesChars(snapshot) ==
    [i \in 1..Len(snapshot) |-> EntryChars(snapshot[i].key, snapshot[i].value)]

RECURSIVE JoinChars(_, _)
JoinChars(strs, sep) ==
    IF strs = <<>> THEN <<>>
    ELSE IF Len(strs) = 1 THEN strs[1]
    ELSE strs[1] \o sep \o JoinChars(Tail(strs), sep)

\* lines 101-111
RequestChars(ct, ts, variables) ==
    <<"[", "\n\t\t", "{", "\n\t\t\t">>
      \o <<"\"", "type", "\"", ":", " ", "\"", ct, "\"", ",", "\n\t\t\t">>
      \o <<"\"", "time", "\"", ":", " ", "\"", FormatANSIC(ts), "\"", ",", "\n\t\t\t">>
      \o <<"\"", "data", "\"", ":", " ", "{", " ">>
      \o JoinChars(variables, <<",">>)
      \o <<" ", "}", "\n\t\t", "}", "\n\t\t", "]">>

\* the snapshots expvar.Do can hand over: names in order, each with a value
RECURSIVE SnapshotsOver(_)
SnapshotsOver(names) ==
    IF names = <<>> THEN { <<>> }
    ELSE LET rest == SnapshotsOver(Tail(names)) IN
         rest \cup { <<[key |-> Head(names), value |-> v]>> \o r :
                       v \in SnapshotValues, r \in rest }

SerInputs ==
    [ct : CollectionTypes, ts : 0..MaxTime, snapshot : SnapshotsOver(SnapshotNames)]

Registered(reg, name) == name \in DOMAIN reg

Publish(reg, name, var) == [k \in DOMAIN reg \cup {name} |-> IF k = name THEN var ELSE reg[k]]

-----------------------------------------------------------------------------
(* Errors and the outcome of http.Post *)

NoError == [op |-> "", url |-> "", err |-> ""]

\* the *url.Error http.Post returns: operation, URL and the underlying error
UrlError(url, cause) == [op |-> "Post", url |-> url, err |-> cause]

ErrorText(e) == e.op \o " \"" \o e.url \o "\": " \o e.err

\* everything an error value carries
Carried(e) == {e.op, e.url, e.err}

\* what one http.Post can come back with: a connection-level error, or a response
NoOutcome == [status |-> 0, err |-> ""]

PostOutcomes ==
    {[status |-> 0, err |-> e] : e \in PostErrors}
      \cup {[status |-> st, err |-> ""] : st \in PostStatuses}

\* variant: the POST is issued twice
PostsIssued_Twice(req) == <<req, req>>

\* the http.Post calls one export makes (line 113)
PostsIssued(req) == <<req>>

\* variant: a response with an error status is turned into an error
ExportError_StatusChecked(url, o) ==
    IF o.err # "" THEN UrlError(url, o.err)
    ELSE IF o.status >= 400 THEN UrlError(url, "bad status " \o ToString(o.status))
    ELSE NoError

\* the error ExportVariablesWithTimestamp returns (lines 113-120)
ExportError(url, o) == IF o.err # "" THEN UrlError(url, o.err) ELSE NoError

\* variant: the request is not logged
ExportLog_NoRequest(url, request, o) ==
    IF o.err # ""
    THEN << "Error POSTing events to Cube collector: " \o ErrorText(UrlError(url, o.err)) >>
    ELSE <<>>

\* the lines it logs (lines 114-117)
ExportLog(url, request, o) ==
    IF o.err # ""
    THEN << "Error POSTing events to Cube collector: " \o ErrorText(UrlError(url, o.err)),
            "The request we tried to post: " \o request >>
    ELSE <<>>

\* variant: the export itself counts in CubeExports when it is registered
RegistryAfterExport_Counting(reg) ==
    IF Registered(reg, "CubeExports")
    THEN [reg EXCEPT !["CubeExports"] = IntVar(reg["CubeExports"].v + 1)]
    ELSE reg

\* the registry when ExportVariablesWithTimestamp returns: it only reads it
RegistryAfterExport(reg) == reg

Range(seq) == {seq[i] : i \in 1..Len(seq)}

\* response bodies http.Post hands over (line 113): one with a response, none with an error
BodiesAcquired(o) == IF o.err = "" THEN 1 ELSE 0

\* variant: the body is never closed
BodiesReleased_Never(o) == 0

\* response bodies closed when the export returns: the deferred Close of line 119;
\* the error path returns at line 117 with no response to close
BodiesReleased(o) == IF o.err = "" THEN 1 ELSE 0

-----------------------------------------------------------------------------
(* Run's pieces *)

\* variant: the switch is not consulted
ExportEnabled_Ignored == TRUE

\* line 60
ExportEnabled == flagExportToCube

\* variant: the parse error is dropped
ParseFailed_Ignored(parsed) == FALSE

\* line 68
ParseFailed(parsed) == parsed.err # ""

\* variant: the interval is parsed before the switch is looked at
StartOutcome_ParseFirst(parsed) ==
    IF ParseFailed(parsed) THEN "fatal" ELSE IF ~ExportEnabled THEN "returned" ELSE "loop"

\* how Run's startup ends (lines 60-74): the switch first, then the interval
StartOutcome(parsed) ==
    IF ~ExportEnabled THEN "returned" ELSE IF ParseFailed(parsed) THEN "fatal" ELSE "loop"

\* variant: the counter starts at 1
NewInt_One(reg, name) == Publish(reg, name, IntVar(1))

\* expvar.NewInt(name), line 73: a new Int of value 0 is published
NewInt(reg, name) == Publish(reg, name, IntVar(0))

\* variant: publishing a name again replaces the variable
NewIntPanics_Never(reg, name) == FALSE

\* expvar.NewInt(name), line 73, panics when the name is published already
NewIntPanics(reg, name) == Registered(reg, name)

\* variant: the loop builds the URL from the flags at each cycle
LoopUrl_Reread == PutUrl(flagCollectorHost, flagCollectorPort)

\* the URL a cycle posts to: Run's local putUrl, set at line 64
LoopUrl == putUrl

\* time.Tick(d): no ticker for d <= 0
Tick(d, t) == IF d <= 0 THEN [active |-> FALSE, next |-> 0] ELSE [active |-> TRUE, next |-> t + d]

\* variant: the channel queues every tick
ChanSend_Queue(ch, t) == Append(ch, t)

\* the ticker's send on its channel of capacity 1: it never blocks, a tick that
\* finds the channel full is dropped
ChanSend(ch, t) == IF Len(ch) < 1 THEN Append(ch, t) ELSE ch

\* variant: the timer fires once (time.After)
Rearm_OneShot(tk, t, d) == [active |-> FALSE, next |-> 0]

\* the ticker is periodic: after firing at t it is due again at t + d
Rearm(tk, t, d) == [tk EXCEPT !.next = t + d]

\* variant: each export is dispatched without waiting for the one before
LoopReady_Always == runPc \in {"waiting", "exporting"}

\* the loop reads the channel only between two cycles (lines 74-75: a synchronous call)
LoopReady == runPc = "waiting"

\* variant: the export is stamped with time.Now()
CycleTimestamp_WallClock(tick, wall) == wall

\* the timestamp handed to the export (lines 74-75): the value the ticker sent
CycleTimestamp(tick, wall) == tick

\* variant: only successful cycles are counted
CounterAfterCycle_OnSuccess(c, err) == IF err = NoError THEN c + 1 ELSE c

\* exportCounter.Add(1), line 78
CounterAfterCycle(c, err) == c + 1

\* variant: the loop ends on the first failed export
PcAfterCycle_StopOnError(err) == IF err # NoError THEN "returned" ELSE "waiting"

\* after a cycle the loop goes back to the channel (lines 74-79)
PcAfterCycle(err) == "waiting"

\* lines 75-77
RunLog(err, ts) ==
    IF err # NoError THEN << "Error exporting variables for " \o TimeString(ts) >> ELSE <<>>

\* the serializer's input when it is not looked at on its own
NoInput == [ct |-> "", ts |-> 0, snapshot |-> <<>>]

-----------------------------------------------------------------------------
(* Initial state: flags parsed, Run not called yet *)

\* everything but the flags and the serializer's input
InitProcess ==
    /\ registry = [k \in {"cmdline", "hits", "memstats"} |->
                     CASE k = "cmdline" -> FuncVar("[\"app\"]")
                       [] k = "memstats" -> FuncVar("{\"Alloc\":0}")
                       [] k = "hits" -> IntVar(0)]
    /\ clock = 0
    /\ alive = TRUE
    /\ runPc = "idle"
    /\ collectionType = ""
    /\ putUrl = ""
    /\ interval = 0
    /\ ticker = Tick(0, 0)
    /\ tickChan = <<>>
    /\ now = 0
    /\ runReq = ""
    /\ runPost = NoOutcome
    /\ runErr = NoError
    /\ runLogged = <<>>
    /\ runStartedAt = 0
    /\ oncePc = "idle"
    /\ onceCalls = 0
    /\ onceReq = ""
    /\ oncePost = NoOutcome
    /\ onceRet = NoError
    /\ onceErrs = 0
    /\ onceLogged = <<>>
    /\ inflight = {}
    /\ posts = [by \in {"run", "once"} |-> 0]
    /\ consumed = 0
    /\ fires = {}
    /\ openBodies = 0
    /\ run2Pc = "idle"
    /\ run2Logged = <<>>

Init ==
    /\ flagCollectorHost \in Hosts
    /\ flagCollectorPort \in Ports
    /\ flagExportInterval \in IntervalFlags
    /\ flagExportToCube \in BOOLEAN
    /\ InitProcess
    /\ serIn = NoInput
    /\ serOut = <<>>

\* the serializer on its own: any collection type, timestamp and snapshot
InitSerialize ==
    /\ flagCollectorHost = "localhost"
    /\ flagCollectorPort = 1080
    /\ flagExportInterval = <<"1", "0", "s">>
    /\ flagExportToCube = TRUE
    /\ InitProcess
    /\ serIn \in SerInputs
    /\ serOut = <<>>

-----------------------------------------------------------------------------
(* Actions *)

\* Run(collectionType) up to its loop, lines 59-74
RunStart ==
    /\ alive /\ runPc = "idle"
    /\ \E ct \in CollectionTypes :
         LET url    == PutUrl(flagCollectorHost, flagCollectorPort)
             parsed == ParseDuration(flagExportInterval)
             line65 == "Exporting expvars to " \o url \o " with event type " \o ct
         IN  IF StartOutcome(parsed) = "returned"
             THEN /\ runPc' = "returned"
                  /\ UNCHANGED <<runLocals, ticker, registry, runLogged, alive>>
             ELSE IF StartOutcome(parsed) = "fatal"
             THEN /\ runPc' = "fatal"
                  /\ alive' = FALSE
                  /\ collectionType' = ct
                  /\ putUrl' = url
                  /\ runLogged' = << line65,
                                     "Error parsing duration " \o Text(flagExportInterval)
                                        \o ": " \o parsed.err >>
                  /\ UNCHANGED <<interval, ticker, registry>>
             ELSE /\ runPc' = "waiting"
                  /\ collectionType' = ct
                  /\ putUrl' = url
                  /\ interval' = parsed.d
                  /\ runLogged' = << line65,
                                     "Exporting variables every " \o ToString(parsed.d) \o "s" >>
                  /\ registry' = NewInt(registry, "CubeExports")
                  /\ ticker' = Tick(parsed.d, clock)
                  /\ UNCHANGED alive
    /\ UNCHANGED <<openBodies, others>>
    /\ UNCHANGED <<flags, clock, tickChan, now, runReq, runPost, runErr, runStartedAt, onceVars,
                   inflight, posts, consumed, fires>>

\* One second passes; the ticker fires when due: a non-blocking send on tickChan.
\* A loop waiting on the channel reads a pending tick before time moves on.
AdvanceClock ==
    /\ clock < MaxTime
    /\ ~(alive /\ LoopReady /\ tickChan # <<>>)
    /\ clock' = clock + 1
    /\ IF alive /\ ticker.active /\ ticker.next = clock + 1
       THEN /\ tickChan' = ChanSend(tickChan, clock + 1)
            /\ ticker' = Rearm(ticker, clock + 1, interval)
            /\ fires' = fires \cup {clock + 1}
       ELSE UNCHANGED <<tickChan, ticker, fires>>
    /\ UNCHANGED <<openBodies, others>>
    /\ UNCHANGED <<flags, registry, alive, runPc, runLocals, now, runReq, runPost, runErr, runLogged,
                   runStartedAt, onceVars, inflight, posts, consumed>>

\* the host process raises one of its own counters
HostAdd ==
    /\ alive
    /\ \E v \in {w \in HostValues : w > registry["hits"].v} :
         registry' = [registry EXCEPT !["hits"] = IntVar(v)]
    /\ UNCHANGED <<openBodies, others>>
    /\ UNCHANGED <<flags, clock, alive, runPc, runLocals, ticker, tickChan, now, runReq,
                   runPost, runErr, runLogged, runStartedAt, onceVars, inflight, posts, consumed, fires>>

\* the loop reads a tick and calls ExportVariablesWithTimestamp, which runs up to
\* its http.Post (lines 74-75, 97-113)
RunRecvTick ==
    /\ alive /\ LoopReady /\ runPc \in {"waiting", "exporting"}
    /\ tickChan # <<>>
    /\ LET ts   == CycleTimestamp(Head(tickChan), clock)
           body == Request(collectionType, ts, Variables(registry))
           reqs == PostsIssued([by |-> "run", url |-> LoopUrl, body |-> body])
       IN  /\ now' = ts
           /\ runReq' = body
           /\ inflight' = inflight \cup Range(reqs)
           /\ posts' = [posts EXCEPT !["run"] = @ + Len(reqs)]
    /\ tickChan' = Tail(tickChan)
    /\ runPc' = "exporting"
    /\ runStartedAt' = clock
    /\ consumed' = consumed + 1
    /\ UNCHANGED <<openBodies, others>>
    /\ UNCHANGED <<flags, registry, clock, alive, runLocals, ticker, runPost, runErr,
                   runLogged, onceVars, fires>>

\* http.Post returns, ExportVariablesWithTimestamp returns, Run logs and counts
\* (lines 113-120, 75-78)
RunPostReturn ==
    /\ alive /\ runPc = "exporting"
    /\ \E req \in {r \in inflight : r.by = "run"}, o \in PostOutcomes :
         LET err == ExportError(req.url, o)
             reg == RegistryAfterExport(registry)
         IN  /\ inflight' = inflight \ {req}
             /\ runPost' = o
             /\ openBodies' = openBodies + BodiesAcquired(o) - BodiesReleased(o)
             /\ runErr' = err
             /\ runLogged' = ExportLog(req.url, req.body, o) \o RunLog(err, now)
             /\ registry' = [reg EXCEPT !["CubeExports"] =
                                IntVar(CounterAfterCycle(reg["CubeExports"].v, err))]
             /\ runPc' = PcAfterCycle(err)
    /\ UNCHANGED others
    /\ UNCHANGED <<flags, clock, alive, runLocals, ticker, tickChan, now, runReq,
                   runStartedAt, onceVars, posts, consumed, fires>>

\* ExportVariables is called: it calls ExportVariablesWithTimestamp with
\* time.Now(), which runs up to its http.Post (lines 87-89, 96-113)
OnceCall ==
    /\ alive /\ oncePc = "idle" /\ onceCalls < MaxOnce
    /\ \E ct \in CollectionTypes, url \in OnceUrls :
         LET body == Request(ct, clock, Variables(registry))
             reqs == PostsIssued([by |-> "once", url |-> url, body |-> body])
         IN  /\ onceReq' = body
             /\ inflight' = inflight \cup Range(reqs)
             /\ posts' = [posts EXCEPT !["once"] = @ + Len(reqs)]
    /\ oncePc' = "posting"
    /\ onceCalls' = onceCalls + 1
    /\ UNCHANGED <<openBodies, others>>
    /\ UNCHANGED <<flags, registry, clock, alive, runPc, runLocals, ticker, tickChan, now,
                   runReq, runPost, runErr, runLogged, runStartedAt, oncePost, onceRet,
                   onceErrs, onceLogged, consumed, fires>>

\* its http.Post returns and it returns to its caller (lines 113-120)
OnceReturn ==
    /\ alive /\ oncePc = "posting"
    /\ \E req \in {r \in inflight : r.by = "once"}, o \in PostOutcomes :
         /\ inflight' = inflight \ {req}
         /\ oncePost' = o
         /\ openBodies' = openBodies + BodiesAcquired(o) - BodiesReleased(o)
         /\ onceRet' = ExportError(req.url, o)
         /\ onceErrs' = IF ExportError(req.url, o) # NoError THEN onceErrs + 1 ELSE onceErrs
         /\ onceLogged' = ExportLog(req.url, req.body, o)
         /\ registry' = RegistryAfterExport(registry)
    /\ oncePc' = "idle"
    /\ UNCHANGED others
    /\ UNCHANGED <<flags, clock, alive, runPc, runLocals, ticker, tickChan, now, runReq,
                   runPost, runErr, runLogged, runStartedAt, onceCalls, onceReq, posts,
                   consumed, fires>>

Next ==
    \/ RunStart
    \/ AdvanceClock
    \/ HostAdd
    \/ RunRecvTick
    \/ RunPostReturn
    \/ OnceCall
    \/ OnceReturn

Spec == Init /\ [][Next]_vars

\* Run and its environment without the ad hoc caller
NextRun ==
    \/ RunStart
    \/ AdvanceClock
    \/ HostAdd
    \/ RunRecvTick
    \/ RunPostReturn

\* the host process sets one flag while it runs (flag.Set)
SetFlag ==
    /\ alive
    /\ \E h \in FlagHosts, p \in FlagPorts, i \in IntervalFlags, e \in BOOLEAN :
         /\ <<h, p, i, e>> # flags
         /\ \/ <<p, i, e>> = <<flagCollectorPort, flagExportInterval, flagExportToCube>>
            \/ <<h, i, e>> = <<flagCollectorHost, flagExportInterval, flagExportToCube>>
            \/ <<h, p, e>> = <<flagCollectorHost, flagCollectorPort, flagExportToCube>>
            \/ <<h, p, i>> = <<flagCollectorHost, flagCollectorPort, flagExportInterval>>
         /\ flagCollectorHost' = h
         /\ flagCollectorPort' = p
         /\ flagExportInterval' = i
         /\ flagExportToCube' = e
    /\ UNCHANGED <<registry, clock, alive, runPc, runLocals, ticker, tickChan, now, runReq,
                   runPost, runErr, runLogged, runStartedAt, onceVars, inflight, posts,
                   consumed, fires, openBodies, others>>

\* Run is called a second time while the first call is in its loop (lines 59-74).
\* The panic of expvar.NewInt ends the process unless the caller recovers from it.
RunSecond ==
    /\ alive /\ runPc \in {"waiting", "exporting"} /\ run2Pc = "idle"
    /\ \E ct \in CollectionTypes, recovered \in BOOLEAN :
         LET url    == PutUrl(flagCollectorHost, flagCollectorPort)
             parsed == ParseDuration(flagExportInterval)
             line65 == "Exporting expvars to " \o url \o " with event type " \o ct
             line71 == "Exporting variables every " \o ToString(parsed.d) \o "s"
         IN  IF StartOutcome(parsed) = "returned"
             THEN /\ run2Pc' = "returned"
                  /\ UNCHANGED <<run2Logged, alive, registry>>
             ELSE IF StartOutcome(parsed) = "fatal"
             THEN /\ run2Pc' = "fatal"
                  /\ alive' = FALSE
                  /\ run2Logged' = << line65,
                                      "Error parsing duration " \o Text(flagExportInterval)
                                         \o ": " \o parsed.err >>
                  /\ UNCHANGED registry
             ELSE IF NewIntPanics(registry, "CubeExports")
             THEN /\ run2Pc' = "panicked"
                  /\ alive' = recovered
                  /\ run2Logged' = << line65, line71,
                                      "Reuse of exported var name: CubeExports" >>
                  /\ UNCHANGED registry
             ELSE /\ run2Pc' = "waiting"
                  /\ run2Logged' = << line65, line71 >>
                  /\ registry' = NewInt(registry, "CubeExports")
                  /\ UNCHANGED alive
    /\ UNCHANGED <<flags, clock, runPc, runLocals, ticker, tickChan, now, runReq, runPost,
                   runErr, runLogged, runStartedAt, onceVars, inflight, posts, consumed,
                   fires, openBodies, serIn, serOut>>

\* Run in a process that sets flags while it runs
NextFlags ==
    \/ NextRun
    \/ SetFlag

SpecFlags == Init /\ [][NextFlags]_vars

\* Run in a process that calls Run again
NextSecond ==
    \/ NextRun
    \/ RunSecond

SpecSecond == Init /\ [][NextSecond]_vars

\* lines 97-111: the request is built from the snapshot
Serialize ==
    /\ serIn # NoInput /\ serOut = <<>>
    /\ serOut' = RequestChars(serIn.ct, serIn.ts, VariablesChars(serIn.snapshot))
    /\ UNCHANGED <<flags, registry, clock, alive, runPc, runLocals, ticker, tickChan, now,
                   runReq, runPost, runErr, runLogged, runStartedAt, onceVars, inflight,
                   posts, consumed, fires, openBodies, run2Pc, run2Logged, serIn>>

NextSerialize == Serialize

SpecSerialize == InitSerialize /\ [][NextSerialize]_vars

\* Time passes, every http.Post of Run returns in the end, and the loop's
\* goroutine is scheduled when a tick is pending.
SpecLive ==
    /\ Init /\ [][NextRun]_vars
    /\ WF_vars(AdvanceClock)
    /\ WF_vars(RunPostReturn)
    /\ WF_vars(RunRecvTick)

-----------------------------------------------------------------------------
(* Properties *)

\* the value of the expvar CubeExports
Counter == registry["CubeExports"].v

InLoop == runPc \in {"waiting", "exporting"}

\* cycles of Run's loop that have run to their end
Completed == IF runPc = "exporting" THEN consumed - 1 ELSE consumed

RunInflight == {r \in inflight : r.by = "run"}
OnceInflight == {r \in inflight : r.by = "once"}

\* a step in which a cycle of Run starts / ends
CycleStarts == consumed' = consumed + 1
CycleEnds == runPc = "exporting" /\ consumed' = consumed /\ runPost' \in PostOutcomes
               /\ RunInflight' # RunInflight

\* a step in which an ad hoc call starts / returns
OnceStarts == onceCalls' = onceCalls + 1
OnceEnds == oncePc = "posting" /\ oncePc' = "idle"

\* C1: in Run's loop the counter CubeExports goes up by exactly 1 for every tick
\* the loop consumes, whether that cycle's export failed or not, and never goes
\* down: once k cycles have completed it equals k.
C1_CounterCountsCycles == InLoop => Counter = Completed

C1_Witness == runPc = "waiting" /\ Counter >= 2 /\ runErr # NoError

\* C2: a failed export never ends Run: the failure is logged, the loop goes back
\* to waiting with its URL, event type, interval and ticker untouched, and the
\* next tick it finds starts a new cycle.
C2_FailureKeepsLooping ==
    /\ [][CycleEnds /\ runErr' # NoError =>
            /\ runPc' = "waiting" /\ alive'
            /\ runLocals' = runLocals /\ ticker' = ticker /\ tickChan' = tickChan
            /\ runLogged' = << "Error POSTing events to Cube collector: " \o ErrorText(runErr'),
                               "The request we tried to post: " \o runReq,
                               "Error exporting variables for " \o TimeString(now) >>]_vars
    /\ [](InLoop /\ Completed >= 1 /\ runErr # NoError => alive)
    /\ [](runPc = "waiting" /\ runErr # NoError /\ tickChan # <<>> => ENABLED RunRecvTick)

C2_Witness == runPc = "exporting" /\ runErr # NoError /\ consumed >= 2

\* C3: no retry and no replay: every cycle of Run and every ad hoc call issues
\* exactly one http.Post, a return (failed or not) issues none, and each cycle's
\* payload is built from the registry and the tick of that cycle, never the
\* payload of the cycle before.
C3_OnePostPerCycle ==
    /\ [](posts["run"] = consumed /\ posts["once"] = onceCalls)
    /\ [][CycleStarts =>
            /\ posts'["run"] = posts["run"] + 1
            /\ runReq' = Request(collectionType, now', Variables(registry))
            /\ runReq' # runReq
            /\ RunInflight' = {[by |-> "run", url |-> putUrl, body |-> runReq']}]_vars
    /\ [][OnceStarts =>
            /\ posts'["once"] = posts["once"] + 1
            /\ onceReq' = Request("myevents", clock, Variables(registry))]_vars
    /\ [][CycleEnds => posts' = posts /\ RunInflight' = {}]_vars
    /\ [][OnceEnds => posts' = posts /\ OnceInflight' = {}]_vars

C3_Witness == runPc = "exporting" /\ runErr # NoError /\ consumed >= 2 /\ posts["once"] >= 1

\* C4: cycles of Run are strictly sequential: at most one http.Post of Run is in
\* flight, exactly while Run is exporting, also when the call outlasts the interval.
C4_CyclesSequential ==
    Cardinality(RunInflight) = IF runPc = "exporting" THEN 1 ELSE 0

C4_Witness ==
    /\ runPc = "exporting" /\ interval > 0
    /\ clock - runStartedAt >= interval
    /\ tickChan # <<>>

\* C5: with cube_export off Run returns at once: it posts nothing then or later,
\* starts no ticker and does not register or change CubeExports.
C5_DisabledDoesNothing ==
    /\ [][runPc = "idle" /\ runPc' # "idle" /\ ~flagExportToCube =>
            /\ runPc' = "returned" /\ alive'
            /\ UNCHANGED <<registry, ticker, tickChan, posts, inflight, runLocals>>]_vars
    /\ [](runPc = "returned" =>
            /\ posts["run"] = 0 /\ consumed = 0 /\ RunInflight = {}
            /\ ~ticker.active /\ tickChan = <<>> /\ fires = {}
            /\ ~Registered(registry, "CubeExports"))

C5_Witness == runPc = "returned" /\ clock >= 2 /\ ~flagExportToCube

C7_ErrorCarriesPayload ==
    oncePc = "idle" /\ onceRet # NoError => onceReq \in Carried(onceRet)

\* C7: the error a failing ad hoc call returns is the error of http.Post (the
\* operation, the URL and the cause) and does not carry the payload; the payload
\* of that call is written to the log, on every failing call, and the caller
\* goes on.
C7_ErrorIsPostErrorPayloadLogged ==
    oncePc = "idle" /\ onceRet # NoError =>
        /\ onceRet.op = "Post" /\ onceRet.url \in OnceUrls /\ onceRet.err \in PostErrors
        /\ onceRet.err = oncePost.err
        /\ onceReq \notin Carried(onceRet)
        /\ onceLogged = << "Error POSTing events to Cube collector: " \o ErrorText(onceRet),
                           "The request we tried to post: " \o onceReq >>

C7_Witness == oncePc = "idle" /\ onceErrs = 2 /\ onceCalls = 2 /\ alive

\* C8: the status code is never looked at: an export returns nil exactly when a
\* response came back, whatever its status, and an error exactly when the POST
\* failed at connection level; in Run a 4xx/5xx cycle logs nothing and counts.
C8_StatusIgnored ==
    /\ (InLoop /\ Completed >= 1) =>
          /\ runErr = NoError <=> runPost.status \in PostStatuses
          /\ runErr # NoError <=> runPost.err \in PostErrors
          /\ runPc = "waiting" /\ runPost.status \in PostStatuses =>
                runLogged = <<>> /\ Counter = consumed
    /\ (oncePc = "idle" /\ onceCalls >= 1) =>
          /\ onceRet = NoError <=> oncePost.status \in PostStatuses
          /\ onceRet # NoError <=> oncePost.err \in PostErrors
          /\ oncePost.status \in PostStatuses => onceLogged = <<>>

C8_Witness ==
    /\ runPc = "waiting" /\ runPost.status = 500 /\ Counter >= 1
    /\ oncePc = "idle" /\ oncePost.status = 404

\* C9: an ad hoc call makes one cycle, returns what its http.Post returned (nil
\* or the error) and leaves CubeExports alone: the counter keeps counting the
\* cycles of Run's loop only.
C9_OnceLeavesCounter ==
    /\ [][oncePc' # oncePc =>
            registry' = registry /\ consumed' = consumed /\ posts'["run"] = posts["run"]]_vars
    /\ [][OnceEnds => \E r \in OnceInflight :
            onceRet' = IF oncePost'.err # "" THEN UrlError(r.url, oncePost'.err) ELSE NoError]_vars
    /\ [](posts["once"] = onceCalls)
    /\ [](InLoop /\ onceCalls >= 1 => Counter = Completed)

C9_Witness == oncePc = "idle" /\ onceCalls = 2 /\ InLoop /\ Counter >= 1

\* C10 as claimed: the timestamp in the event of a cycle of Run is the wall-clock
\* time at which the cycle runs.
C10_TimestampIsWallClock ==
    [][CycleStarts => runReq' = Request(collectionType, clock, Variables(registry))]_vars

\* C10: the timestamp in the event of a cycle of Run is the time at which the
\* ticker fired the tick the cycle consumes; it is never later than the time the
\* cycle runs.
C10_TimestampIsTickTime ==
    /\ [][CycleStarts =>
            /\ tickChan # <<>>
            /\ runReq' = Request(collectionType, Head(tickChan), Variables(registry))
            /\ now' = Head(tickChan)]_vars
    /\ [](consumed >= 1 => now \in fires /\ now <= runStartedAt)

C10_Witness == runPc = "exporting" /\ consumed >= 2 /\ now < runStartedAt

\* C12: CubeExports is in the registry before the first tick, so every snapshot
\* of a cycle of Run holds its entry, and in the payload of the k-th cycle its
\* value is k-1.
C12_CounterInOwnSnapshot ==
    /\ [](InLoop => Registered(registry, "CubeExports"))
    /\ [][CycleStarts =>
            /\ Entry("CubeExports", ToString(consumed' - 1)) \in Range(Variables(registry))
            /\ runReq' = Request(collectionType, now', Variables(registry))]_vars

C12_Witness == runPc = "exporting" /\ consumed = 2 /\ runErr # NoError /\ Counter = 1

\* C14: whenever an export has returned, by success or by error, no response
\* body it received is still open.
C14_NoResponseLeftOpen == openBodies = 0

C14_Witness ==
    /\ runPc = "waiting" /\ Counter >= 1 /\ runPost.status = 200
    /\ oncePc = "idle" /\ onceErrs >= 1

\* the ticker's firings that were neither read nor are pending
Dropped == Cardinality(fires) - consumed - Len(tickChan)

\* C16: the channel holds at most one pending tick; a firing that finds one
\* pending is dropped, so cycles never outnumber firings, a read leaves nothing
\* queued, and two cycles never start at the same time.
C16_TicksDroppedNotQueued ==
    /\ [](Len(tickChan) <= 1 /\ Dropped >= 0)
    /\ [](InLoop => Counter <= Cardinality(fires))
    /\ [][fires' # fires /\ tickChan # <<>> => tickChan' = tickChan]_vars
    /\ [][CycleStarts => tickChan' = <<>> /\ (consumed >= 1 => clock > runStartedAt)]_vars

C16_Witness ==
    /\ runPc = "exporting" /\ consumed = 2 /\ now < runStartedAt
    /\ Dropped = 1 /\ tickChan = <<>>

\* C17: the switch is looked at before the interval is parsed: with export off
\* and an interval that does not parse Run returns, logs nothing and posts
\* nothing; the fatal error only happens with export on.
C17_SwitchBeforeInterval ==
    /\ [][runPc = "idle" /\ runPc' # "idle" /\ ~flagExportToCube
            /\ ParseDuration(flagExportInterval).err # "" =>
            /\ runPc' = "returned" /\ alive'
            /\ UNCHANGED <<runLogged, posts, inflight, registry>>]_vars
    /\ [][runPc # "fatal" /\ runPc' = "fatal" => flagExportToCube]_vars
    /\ [](runPc = "returned" => posts["run"] = 0)

C17_Witness ==
    /\ runPc = "returned" /\ alive /\ clock >= 1
    /\ ~flagExportToCube /\ flagExportInterval = <<"a", "b", "c">>

\* C11: once in its loop Run has no terminal state: it never returns and the
\* process lives on, its ticker is always armed for a later firing, every
\* Exporting is followed by Waiting, and as long as a tick is pending or due
\* within the horizon another cycle starts.
C11_LoopNeverEnds ==
    /\ [][InLoop => InLoop' /\ alive']_vars
    /\ [](InLoop /\ interval > 0 =>
            ticker.active /\ ticker.next > clock /\ ticker.next <= clock + interval)
    /\ (runPc = "exporting") ~> (runPc = "waiting")
    /\ \A k \in 0..MaxTime :
          (InLoop /\ interval > 0 /\ consumed = k
             /\ (tickChan # <<>> \/ ticker.next <= MaxTime))
            ~> (consumed > k)

C11_Witness == runPc = "exporting" /\ consumed = 3 /\ Counter = 2

\* C15: the configuration is read once: putUrl and interval are computed from
\* the flags when Run starts; setting any flag afterwards changes neither them,
\* nor the URL of any later POST, nor the tick spacing, nor whether a pending
\* tick starts a cycle.
C15_ConfigReadOnce ==
    /\ [][runPc = "idle" /\ runPc' = "waiting" =>
            /\ putUrl' = PutUrl(flagCollectorHost, flagCollectorPort)
            /\ interval' = ParseDuration(flagExportInterval).d]_vars
    /\ [][InLoop => runLocals' = runLocals]_vars
    /\ [][flags' # flags =>
            UNCHANGED <<runPc, runLocals, ticker, tickChan, inflight, posts, registry>>]_vars
    /\ [][CycleStarts => \A r \in RunInflight' : r.url = putUrl]_vars
    /\ [][fires' # fires => ticker'.next = clock' + interval]_vars
    /\ [](alive /\ runPc = "waiting" /\ tickChan # <<>> => ENABLED RunRecvTick)

C15_Witness ==
    /\ runPc = "exporting" /\ consumed >= 2 /\ run2Pc = "idle"
    /\ putUrl # PutUrl(flagCollectorHost, flagCollectorPort)
    /\ flagCollectorHost # "localhost" /\ flagCollectorPort # 1080
    /\ ~flagExportToCube
    /\ ParseDuration(flagExportInterval).err # ""

\* C18: a second call of Run never becomes a second loop: with export on and a
\* valid interval it panics at the registration of CubeExports, and whatever
\* its outcome it consumes no tick, posts nothing and leaves the registry, with
\* the first loop's counter, as it was.
C18_SecondRunPanics ==
    /\ [](run2Pc \in {"idle", "returned", "fatal", "panicked"})
    /\ [][run2Pc = "idle" /\ run2Pc' # "idle" /\ flagExportToCube
            /\ ParseDuration(flagExportInterval).err = "" =>
            run2Pc' = "panicked"]_vars
    /\ [][run2Pc' # run2Pc =>
            UNCHANGED <<registry, posts, inflight, consumed, tickChan, ticker, runPc,
                        runLocals>>]_vars

C18_Witness ==
    /\ run2Pc = "panicked" /\ alive
    /\ runPc = "exporting" /\ consumed >= 2 /\ Counter >= 1

-----------------------------------------------------------------------------
(* Reading a request as JSON *)

WhiteSpace == {" ", "\n\t\t", "\n\t\t\t"}

\* the quotes of the text that open or close a string: those not behind an
\* odd run of backslashes
StringQuotes(s) ==
    {j \in 1..Len(s) :
        /\ s[j] = "\""
        /\ Cardinality({k \in 1..(j - 1) : \A m \in (j - k)..(j - 1) : s[m] = "\\"}) % 2 = 0}

\* for each piece, whether it lies within a string
InString(s) ==
    LET q == StringQuotes(s) IN
    [i \in 1..Len(s) |-> Cardinality({j \in q : j < i}) % 2 = 1]

\* for each piece, the nesting of objects and arrays it lies in
Depth(s) ==
    LET in == InString(s) IN
    [i \in 1..Len(s) |->
        Cardinality({j \in 1..(i - 1) : ~in[j] /\ s[j] \in {"{", "["}})
          - Cardinality({j \in 1..(i - 1) : ~in[j] /\ s[j] \in {"}", "]"}})]

\* every string and every nesting of the text is closed
Balanced(s) ==
    LET in == InString(s)
        d  == Depth(s)
    IN  /\ Cardinality(StringQuotes(s)) % 2 = 0
        /\ \A i \in 1..Len(s) : ~in[i] /\ s[i] \in {"}", "]"} => d[i] > 0
        /\ Cardinality({j \in 1..Len(s) : ~in[j] /\ s[j] \in {"{", "["}})
             = Cardinality({j \in 1..Len(s) : ~in[j] /\ s[j] \in {"}", "]"}})

\* the text cut at each sep that is outside every string and every nesting
SplitTop(s, sep) ==
    LET in   == InString(s)
        d    == Depth(s)
        cuts == {i \in 1..Len(s) : s[i] = sep /\ ~in[i] /\ d[i] = 0}
        cut(k) == IF k = 0 THEN 0
                  ELSE IF k > Cardinality(cuts) THEN Len(s) + 1
                  ELSE CHOOSE c \in cuts : Cardinality({e \in cuts : e < c}) = k - 1
    IN  [k \in 1..(Cardinality(cuts) + 1) |-> SubSeq(s, cut(k - 1) + 1, cut(k) - 1)]

RECURSIVE TrimLeft(_)
TrimLeft(s) == IF s # <<>> /\ Head(s) \in WhiteSpace THEN TrimLeft(Tail(s)) ELSE s

RECURSIVE TrimRight(_)
TrimRight(s) ==
    IF s # <<>> /\ s[Len(s)] \in WhiteSpace THEN TrimRight(SubSeq(s, 1, Len(s) - 1)) ELSE s

Trim(s) == TrimRight(TrimLeft(s))

Enclosed(s, open, close) ==
    LET t == Trim(s) IN Len(t) >= 2 /\ t[1] = open /\ t[Len(t)] = close

Inside(s) == LET t == Trim(s) IN SubSeq(t, 2, Len(t) - 1)

\* the elements of an array, or the members of an object, as texts
Items(s) ==
    IF Trim(Inside(s)) = <<>> THEN <<>>
    ELSE LET parts == SplitTop(Inside(s), ",") IN
         [i \in 1..Len(parts) |-> Trim(parts[i])]

Member(item) ==
    LET parts == SplitTop(item, ":") IN
    [key |-> Trim(parts[1]), value |-> Trim(JoinChars(Tail(parts), <<":">>))]

Members(s) == LET items == Items(s) IN [i \in 1..Len(items) |-> Member(items[i])]

RECURSIVE Unescaped(_)
Unescaped(s) ==
    IF s = <<>> THEN <<>>
    ELSE IF Head(s) = "\\" /\ Len(s) >= 2 THEN <<s[2]>> \o Unescaped(Tail(Tail(s)))
    ELSE <<Head(s)>> \o Unescaped(Tail(s))

\* the characters a JSON string stands for
Unquote(s) == Unescaped(Inside(s))

\* C13: the request is an array of one object with the members type, time and
\* data; data has one member per variable of the snapshot, in the snapshot's
\* order, its key the quoted name and its value the variable's text as it is;
\* an empty snapshot gives an empty data object.
C13_SnapshotKept ==
    serOut # <<>> =>
        /\ Balanced(serOut)
        /\ Enclosed(serOut, "[", "]")
        /\ Len(Items(serOut)) = 1
        /\ LET event == Items(serOut)[1]
               ms    == Members(event)
           IN  /\ Enclosed(event, "{", "}")
               /\ Len(ms) = 3
               /\ <<Unquote(ms[1].key), Unquote(ms[2].key), Unquote(ms[3].key)>>
                    = << <<"type">>, <<"time">>, <<"data">> >>
               /\ Unquote(ms[1].value) = <<serIn.ct>>
               /\ Unquote(ms[2].value) = <<FormatANSIC(serIn.ts)>>
               /\ Enclosed(ms[3].value, "{", "}")
               /\ LET ds == Members(ms[3].value) IN
                  /\ Len(ds) = Len(serIn.snapshot)
                  /\ \A i \in 1..Len(ds) :
                        /\ Enclosed(ds[i].key, "\"", "\"")
                        /\ Unquote(ds[i].key) = serIn.snapshot[i].key
                        /\ ds[i].value = serIn.snapshot[i].value
        /\ Text(serOut)
             = Request(serIn.ct, serIn.ts,
                       [i \in 1..Len(serIn.snapshot) |->
                          Text(EntryChars(serIn.snapshot[i].key, serIn.snapshot[i].value))])

C13_Witness ==
    /\ serOut # <<>>
    /\ Len(serIn.snapshot) = 3
    /\ serIn.snapshot[1].value = <<"\"", "x", ",", "y", "\"">>
    /\ serIn.snapshot[2].value = <<"{", "\"", "k", "\"", ":", "[", "1", ",", "2", "]", "}">>
    /\ serIn.snapshot[3].value = <<"1">>
    /\ Len(Members(Members(Items(serOut)[1])[3].value)) = 3

====
